---- MODULE Spec2Model ----
(***************************************************************************)
(* Model of examples/slab/slab.cpp: the persistent slab allocator          *)
(* (class slab), the hybrid key-value store with a DRAM index over it      *)
(* (class kv) and the partitioned parallel traversal (slab::foreach, the   *)
(* same loop as persistent_sink::foreach of examples/vecs/vecs.cpp).       *)
(*                                                                         *)
(* Slab indices are zero based; TLA+ sequences are one based, so slot i of *)
(* the segment vector is vec[i + 1].                                       *)
(***************************************************************************)
EXTENDS Integers, Sequences, FiniteSets, Bags, TLC

(***************************************************************************)
(* Bounds of the model.                                                    *)
(***************************************************************************)
MaxKey == 2            \* keys are 0..MaxKey
MaxValue == 2          \* values are 1..MaxValue
MaxLen == 2            \* the segment vector grows to at most MaxLen slots
MaxCrashes == 2        \* unclean shutdowns per behaviour
MaxScanLen == 4        \* longest arena traversed by foreach
MaxThreads == 3        \* largest nthreads passed to foreach
MaxSlabLen == 3        \* slots of the arena when the allocator is driven directly or by two threads

Keys == 0 .. MaxKey
Values == 1 .. MaxValue

(***************************************************************************)
(* slab_index is p<uint64_t>: its arithmetic is modular.  The modulus is   *)
(* scaled to 2^30 so that every intermediate value fits 32 bits;           *)
(* the wrap of 0 - 1 and of (2^w - 1) + 1 is kept.                         *)
(***************************************************************************)
UINT64_MODULUS == 1073741824

\* a decrement that stays at 0 instead of wrapping
Sub1Saturating(x) == IF x = 0 THEN 0 ELSE x - 1

Sub1(x) == (x + UINT64_MODULUS - 1) % UINT64_MODULUS
Add1(x) == (x + 1) % UINT64_MODULUS

ENTRY_VACANT == 0
ENTRY_OCCUPIED == 1

\* struct foo { key; value }
foo(k, v) == [key |-> k, value |-> v]

\* slab_entry(T value): a new entry is occupied and holds the value
slab_entry(value) == [type |-> ENTRY_OCCUPIED, occupied |-> value]

(***************************************************************************)
(* union { p<T> occupied; slab_entry_vacant vacant; }: vacant.next is the  *)
(* first eight bytes of the cell, the same bytes as occupied.key.          *)
(***************************************************************************)
vacant_next(entry) == entry.occupied.key
with_vacant_next(entry, n) == [entry EXCEPT !.occupied.key = n]

\* vec.at(i): the access is bounds checked
InRange(v, i) == i < Len(v)
At(v, i) == v[i + 1]

\* has_vacant / vacant_index / set_vacant on the stored head (index + 1)
has_vacant(head) == head # 0
vacant_index(head) == Sub1(head)
set_vacant(entry) == Add1(entry)

\* a lookup that never finds the key
MapFindNone(m, k) == FALSE

\* map.find(key) != map.end()
MapFind(m, k) == k \in DOMAIN m

\* map[key]: a missing key is first inserted with the default index 0
MapSubscript(m, k) == IF k \in DOMAIN m THEN m ELSE [x \in DOMAIN m \cup {k} |-> IF x = k THEN 0 ELSE m[x]]
MapAssign(m, k, i) == [x \in DOMAIN m \cup {k} |-> IF x = k THEN i ELSE m[x]]
MapErase(m, k) == [x \in DOMAIN m \ {k} |-> m[x]]
EmptyMap == [x \in {} |-> 0]

(***************************************************************************)
(* kv::kv: slab.foreach with the default nthreads = 1 walks the slots in   *)
(* ascending order and sets map[value.key] = idx for every slot that is    *)
(* not vacant.                                                             *)
(***************************************************************************)
RECURSIVE RebuildFrom(_, _, _)
RebuildFrom(v, i, m) ==
    IF i >= Len(v) THEN m
    ELSE IF At(v, i).type = ENTRY_VACANT THEN RebuildFrom(v, i + 1, m)
    ELSE RebuildFrom(v, i + 1, MapAssign(m, At(v, i).occupied.key, i))

Rebuild(v) == RebuildFrom(v, 0, EmptyMap)

VARIABLES
    vec,          \* slab::vec, the persistent segment vector of slab_entry
    vacant,       \* slab::vacant, head of the free list stored as index + 1
    map,          \* kv::map, the DRAM index key -> slab index
    pc,           \* position of the calling thread: "idle" between calls, inside
                  \* kv::insert / kv::remove, or "returned" when a call has just ended
    f,            \* argument of the running call: the foo of insert, the key of remove
    idx,          \* local slab_index idx of slab::insert / slab::remove
    next_vacant,  \* local next_vacant of slab::insert
    unflushed,    \* the occupied bytes that entry.occupied = value replaced, until pop.persist
    tx,           \* the open transaction: the durable state it rolls back to
    ret,          \* outcome of the call that has just ended
    got,          \* the foo that kv::get has just returned a reference to
    pre,          \* vec, vacant and map when the running call was made
    call,         \* name of the running call
    crashed,      \* the call and position an unclean shutdown interrupted
    crashes,      \* number of unclean shutdowns so far
    present,      \* keys inserted successfully and not removed since, with their value
    freed,        \* slots freed by slab::remove and not reused since, oldest first
    nthreads,     \* foreach: the nthreads argument
    partsize,     \* foreach: local partsize
    itr,          \* foreach: local itr, as a slot index
    futures,      \* foreach: one record per launched task, its cursor n and its end
    waited,       \* foreach: number of futures the final loop has waited for
    calls,        \* foreach: bag of the callback invocations <<index, value>>
    scan_pc,      \* foreach: position of the calling thread
    thr           \* concurrent callers of kv::insert: position and locals of each

kvvars == <<vec, vacant, map, pc, f, idx, next_vacant, unflushed, tx, ret, got,
            pre, call, crashed, crashes, present, freed, thr>>
scanvars == <<nthreads, partsize, itr, futures, waited, calls, scan_pc>>
vars == <<kvvars, scanvars, thr>>

NoTx == [active |-> FALSE]
Threads == {1, 2}
NoFoo == foo(0, 0)
NoCrash == [call |-> "none", pc |-> "idle", idx |-> 0]
Snapshot == [vec |-> vec, vacant |-> vacant, map |-> map, freed |-> freed]
IdleThread == [pc |-> "idle", f |-> NoFoo, idx |-> 0, next_vacant |-> 0, ret |-> "none"]
NoSnapshot == [vec |-> <<>>, vacant |-> 0, map |-> EmptyMap, freed |-> <<>>]

\* the slots on the free chain, following at most Len(v) + 1 links from the head
RECURSIVE ChainFrom(_, _, _)
ChainFrom(v, head, n) ==
    IF n = 0 \/ ~has_vacant(head) \/ ~InRange(v, vacant_index(head)) THEN {}
    ELSE {vacant_index(head)} \cup ChainFrom(v, vacant_next(At(v, vacant_index(head))), n - 1)

FreeChain(v, head) == ChainFrom(v, head, Len(v) + 1)
OccupiedSet(v) == {i \in 0 .. Len(v) - 1 : At(v, i).type = ENTRY_OCCUPIED}

ScanIdle ==
    /\ nthreads = 1 /\ partsize = 0 /\ itr = 0 /\ futures = <<>> /\ waited = 0
    /\ calls = EmptyBag /\ scan_pc = "off"

Init ==
    /\ vec = <<>>
    /\ vacant = 0
    /\ map = EmptyMap
    /\ pc = "idle"
    /\ f = NoFoo
    /\ idx = 0
    /\ next_vacant = 0
    /\ unflushed = <<>>
    /\ tx = NoTx
    /\ ret = "none"
    /\ got = NoFoo
    /\ pre = NoSnapshot
    /\ call = "none"
    /\ crashed = NoCrash
    /\ crashes = 0
    /\ present = EmptyMap
    /\ freed = <<>>
    /\ thr = [t \in Threads |-> IdleThread]
    /\ ScanIdle

\* a call returns (or throws) to the caller: the locals die
Return(r) ==
    /\ pc' = "returned"
    /\ ret' = r
    /\ idx' = 0
    /\ next_vacant' = 0
    /\ unflushed' = <<>>
    /\ tx' = NoTx

Enter(name, arg) ==
    /\ pc = "idle"
    /\ call' = name
    /\ f' = arg
    /\ pre' = Snapshot
    /\ crashed' = NoCrash

\* the caller is done with the outcome of the call and goes on
CallerGoesOn ==
    /\ pc = "returned"
    /\ pc' = "idle"
    /\ f' = NoFoo
    /\ ret' = "none"
    /\ got' = NoFoo
    /\ pre' = NoSnapshot
    /\ call' = "none"
    /\ crashed' = NoCrash
    /\ UNCHANGED <<vec, vacant, map, idx, next_vacant, unflushed, tx, crashes,
                   present, freed, scanvars, thr>>

(***************************************************************************)
(* kv::insert                                                              *)
(***************************************************************************)
\* if (map.find(f.key) != map.end()) return false;
KvInsertExists ==
    \E k \in Keys, v \in Values :
        /\ Enter("insert", foo(k, v))
        /\ MapFind(map, k)
        /\ Return("false")
        /\ UNCHANGED <<vec, vacant, map, crashes, present, freed, got, scanvars, thr>>

\* slab::insert, no vacant entry: vec.emplace_back(value); return vec.size() - 1;
SlabInsertAppend ==
    \E k \in Keys, v \in Values :
        /\ Enter("insert", foo(k, v))
        /\ ~MapFind(map, k)
        /\ ~has_vacant(vacant)
        /\ Len(vec) < MaxLen
        /\ vec' = Append(vec, slab_entry(foo(k, v)))
        /\ idx' = Len(vec)
        /\ pc' = "ins_index"
        /\ UNCHANGED <<vacant, map, next_vacant, unflushed, tx, ret, crashes,
                       present, freed, got, scanvars, thr>>

\* slab::insert, a vacant entry exists: vec.at(idx) throws std::out_of_range,
\* which kv::insert does not catch
SlabInsertOutOfRange ==
    \E k \in Keys, v \in Values :
        /\ Enter("insert", foo(k, v))
        /\ ~MapFind(map, k)
        /\ has_vacant(vacant)
        /\ ~InRange(vec, vacant_index(vacant))
        /\ Return("out_of_range")
        /\ UNCHANGED <<vec, vacant, map, crashes, present, freed, got, scanvars, thr>>

\* slab::insert, a vacant entry exists: idx, next_vacant, entry.occupied = value
SlabInsertWrite ==
    \E k \in Keys, v \in Values :
        /\ Enter("insert", foo(k, v))
        /\ ~MapFind(map, k)
        /\ has_vacant(vacant)
        /\ InRange(vec, vacant_index(vacant))
        /\ idx' = vacant_index(vacant)
        /\ next_vacant' = Sub1(vacant_next(At(vec, vacant_index(vacant))))
        /\ unflushed' = <<At(vec, vacant_index(vacant)).occupied>>
        /\ vec' = [vec EXCEPT ![vacant_index(vacant) + 1].occupied = foo(k, v)]
        /\ pc' = "ins_persist"
        /\ UNCHANGED <<vacant, map, tx, ret, crashes, present, freed, got, scanvars, thr>>

\* pop.persist(entry.occupied)
SlabInsertPersist ==
    /\ pc = "ins_persist"
    /\ unflushed' = <<>>
    /\ pc' = "ins_type"
    /\ UNCHANGED <<vec, vacant, map, f, idx, next_vacant, tx, ret, pre, call,
                   crashed, crashes, present, freed, got, scanvars, thr>>

\* transaction::run(pop, [&] { entry.type = ENTRY_OCCUPIED; ...
SlabInsertType ==
    /\ pc = "ins_type"
    /\ tx' = [active |-> TRUE, vec |-> vec, vacant |-> vacant]
    /\ vec' = [vec EXCEPT ![idx + 1].type = ENTRY_OCCUPIED]
    /\ pc' = "ins_set_vacant"
    /\ UNCHANGED <<vacant, map, f, idx, next_vacant, unflushed, ret, pre, call,
                   crashed, crashes, present, freed, got, scanvars, thr>>

\* ... set_vacant(next_vacant); ...
SlabInsertSetVacant ==
    /\ pc = "ins_set_vacant"
    /\ vacant' = set_vacant(next_vacant)
    /\ pc' = "ins_commit"
    /\ UNCHANGED <<vec, map, f, idx, next_vacant, unflushed, tx, ret, pre, call,
                   crashed, crashes, present, freed, got, scanvars, thr>>

\* ... }); return idx;   the transaction commits
SlabInsertCommit ==
    /\ pc = "ins_commit"
    /\ tx' = NoTx
    /\ pc' = "ins_index"
    /\ freed' = SelectSeq(freed, LAMBDA s : s # idx)
    /\ UNCHANGED <<vec, vacant, map, f, idx, next_vacant, unflushed, ret, pre,
                   call, crashed, crashes, present, got, scanvars, thr>>

\* map[f.key] = idx; return true;
KvInsertIndex ==
    /\ pc = "ins_index"
    /\ map' = MapAssign(map, f.key, idx)
    /\ present' = MapAssign(present, f.key, f.value)
    /\ Return("true")
    /\ UNCHANGED <<vec, vacant, f, pre, call, crashed, crashes, freed, got, scanvars, thr>>

(***************************************************************************)
(* kv::remove                                                              *)
(***************************************************************************)
\* auto f = map[key];
KvRemoveLookup ==
    \E k \in Keys :
        /\ Enter("remove", foo(k, 0))
        /\ map' = MapSubscript(map, k)
        /\ idx' = MapSubscript(map, k)[k]
        /\ present' = MapErase(present, k)
        /\ pc' = "rem_type"
        /\ UNCHANGED <<vec, vacant, next_vacant, unflushed, tx, ret, got, crashes,
                       freed, scanvars, thr>>

\* slab::remove: vec.at(idx) throws std::out_of_range inside the transaction,
\* which aborts with nothing written; kv::remove does not catch it
SlabRemoveOutOfRange ==
    /\ pc = "rem_type"
    /\ ~InRange(vec, idx)
    /\ Return("out_of_range")
    /\ UNCHANGED <<vec, vacant, map, f, got, pre, call, crashed, crashes, present,
                   freed, scanvars, thr>>

\* the same step with the store made before the transaction is open
SlabRemoveTypeNoTx ==
    /\ pc = "rem_type"
    /\ InRange(vec, idx)
    /\ vec' = [vec EXCEPT ![idx + 1].type = ENTRY_VACANT]
    /\ pc' = "rem_next"
    /\ UNCHANGED <<vacant, map, f, idx, next_vacant, unflushed, tx, ret, got, pre,
                   call, crashed, crashes, present, freed, scanvars, thr>>

\* transaction::run(pop, [&] { entry = vec.at(idx); entry.type = ENTRY_VACANT; ...
SlabRemoveType ==
    /\ pc = "rem_type"
    /\ InRange(vec, idx)
    /\ tx' = [active |-> TRUE, vec |-> vec, vacant |-> vacant]
    /\ vec' = [vec EXCEPT ![idx + 1].type = ENTRY_VACANT]
    /\ pc' = "rem_next"
    /\ UNCHANGED <<vacant, map, f, idx, next_vacant, unflushed, ret, got, pre,
                   call, crashed, crashes, present, freed, scanvars, thr>>

\* the same step when the store covers the whole payload, not only the link
SlabRemoveNextClears ==
    /\ pc = "rem_next"
    /\ vec' = [vec EXCEPT ![idx + 1].occupied = foo(vacant, 0)]
    /\ pc' = "rem_set_vacant"
    /\ UNCHANGED <<vacant, map, f, idx, next_vacant, unflushed, tx, ret, got, pre,
                   call, crashed, crashes, present, freed, scanvars, thr>>

\* ... entry.vacant.next = vacant; ...
SlabRemoveNext ==
    /\ pc = "rem_next"
    /\ vec' = [vec EXCEPT ![idx + 1] = with_vacant_next(@, vacant)]
    /\ pc' = "rem_set_vacant"
    /\ UNCHANGED <<vacant, map, f, idx, next_vacant, unflushed, tx, ret, got, pre,
                   call, crashed, crashes, present, freed, scanvars, thr>>

\* ... set_vacant(idx); ...
SlabRemoveSetVacant ==
    /\ pc = "rem_set_vacant"
    /\ vacant' = set_vacant(idx)
    /\ pc' = "rem_commit"
    /\ UNCHANGED <<vec, map, f, idx, next_vacant, unflushed, tx, ret, got, pre,
                   call, crashed, crashes, present, freed, scanvars, thr>>

\* ... });   the transaction commits
SlabRemoveCommit ==
    /\ pc = "rem_commit"
    /\ tx' = NoTx
    /\ freed' = Append(SelectSeq(freed, LAMBDA s : s # idx), idx)
    /\ pc' = "rem_erase"
    /\ UNCHANGED <<vec, vacant, map, f, idx, next_vacant, unflushed, ret, got, pre,
                   call, crashed, crashes, present, scanvars, thr>>

\* map.erase(key);
KvRemoveErase ==
    /\ pc = "rem_erase"
    /\ map' = MapErase(map, f.key)
    /\ Return("void")
    /\ UNCHANGED <<vec, vacant, f, got, pre, call, crashed, crashes, present,
                   freed, scanvars, thr>>

(***************************************************************************)
(* kv::get: auto f = map[key]; return slab.get(f);                         *)
(* slab::get returns entry.occupied whatever the type of the entry; the    *)
(* bounds check of vec.at throws std::out_of_range.                        *)
(***************************************************************************)
KvGetResult(m, v, k) ==
    IF InRange(v, MapSubscript(m, k)[k])
    THEN [ret |-> "ref", got |-> At(v, MapSubscript(m, k)[k]).occupied]
    ELSE [ret |-> "out_of_range", got |-> NoFoo]

KvGet ==
    \E k \in Keys :
        /\ Enter("get", foo(k, 0))
        /\ map' = MapSubscript(map, k)
        /\ got' = KvGetResult(map, vec, k).got
        /\ Return(KvGetResult(map, vec, k).ret)
        /\ UNCHANGED <<vec, vacant, crashes, present, freed, scanvars, thr>>

(***************************************************************************)
(* Unclean shutdown and reopen.  The open transaction is rolled back, a    *)
(* store that was not yet persisted may or may not have reached the        *)
(* medium (each eight byte word on its own), the DRAM index is lost and    *)
(* kv::kv rebuilds it from the vector.                                     *)
(***************************************************************************)
RolledBack == IF tx.active THEN [vec |-> tx.vec, vacant |-> tx.vacant]
              ELSE [vec |-> vec, vacant |-> vacant]

Crash ==
    /\ crashes < MaxCrashes
    /\ scan_pc = "off"
    /\ crashes' = crashes + 1
    /\ crashed' = IF pc \in {"idle", "returned"} THEN NoCrash
                   ELSE [call |-> call, pc |-> pc, idx |-> idx]
    /\ \E keepKey \in BOOLEAN, keepValue \in BOOLEAN :
           /\ (unflushed = <<>>) => (keepKey /\ keepValue)
           /\ vec' = IF unflushed = <<>> THEN RolledBack.vec
                     ELSE [RolledBack.vec EXCEPT ![idx + 1].occupied =
                              foo(IF keepKey THEN @.key ELSE unflushed[1].key,
                                  IF keepValue THEN @.value ELSE unflushed[1].value)]
    /\ vacant' = RolledBack.vacant
    /\ map' = Rebuild(vec')
    /\ Return("recovered")
    /\ UNCHANGED <<f, got, pre, call, present, freed, scanvars, thr>>

(***************************************************************************)
(* slab::foreach (persistent_sink::foreach of vecs.cpp is the same loop    *)
(* with nthreads = NTHREADS and no test of the entry type).                *)
(***************************************************************************)
Min(a, b) == IF a < b THEN a ELSE b

\* size_t partsize = vec.size() > nthreads ? vec.size() / nthreads : vec.size();
PartSize(size, n) == IF size > n THEN size \div n ELSE size

\* partial_iter_end = itr + min(distance(itr, vec.cend()), partsize)
PartialIterEnd(i, size, part) == i + Min(size - i, part)

\* a task that does not look at the type of the entry
CallsBackAlways(entry) == TRUE

\* if (n->type == ENTRY_VACANT) continue;   the callback runs for the other entries
CallsBack(entry) == entry.type # ENTRY_VACANT

\* std::vector<std::future<void>> futures; auto itr = vec.cbegin(); partsize
ForeachBegin ==
    /\ scan_pc = "begin"
    /\ partsize' = PartSize(Len(vec), nthreads)
    /\ itr' = 0
    /\ futures' = <<>>
    /\ scan_pc' = "launch"
    /\ UNCHANGED <<kvvars, nthreads, waited, calls>>

\* do { ... futures.emplace_back(std::async(std::launch::async, ...));
\*      itr = partial_iter_end; } while (itr != vec.cend());
ForeachLaunch ==
    /\ scan_pc = "launch"
    /\ futures' = Append(futures, [n |-> itr,
                                   partial_iter_end |-> PartialIterEnd(itr, Len(vec), partsize),
                                   ready |-> FALSE])
    /\ itr' = PartialIterEnd(itr, Len(vec), partsize)
    /\ scan_pc' = IF PartialIterEnd(itr, Len(vec), partsize) # Len(vec) THEN "launch" ELSE "wait"
    /\ UNCHANGED <<kvvars, nthreads, partsize, waited, calls>>

\* one iteration of the loop of a task: for (auto n = itr; n != partial_iter_end; ++n)
\* the callback is the one of kv::kv, the only caller: under the lock, map[value.key] = idx
TaskStep ==
    \E t \in 1 .. Len(futures) :
        /\ ~futures[t].ready
        /\ futures[t].n # futures[t].partial_iter_end
        /\ calls' = IF CallsBack(At(vec, futures[t].n))
                    THEN calls (+) SetToBag({<<futures[t].n, At(vec, futures[t].n).occupied>>})
                    ELSE calls
        /\ map' = IF CallsBack(At(vec, futures[t].n))
                  THEN MapAssign(map, At(vec, futures[t].n).occupied.key, futures[t].n)
                  ELSE map
        /\ futures' = [futures EXCEPT ![t].n = @ + 1]
        /\ UNCHANGED <<vec, vacant, pc, f, idx, next_vacant, unflushed, tx, ret, got,
                       pre, call, crashed, crashes, present, freed, thr,
                       nthreads, partsize, itr, waited, scan_pc>>

\* the loop of a task ends and its future never becomes ready
TaskNeverReady ==
    \E t \in 1 .. Len(futures) :
        /\ ~futures[t].ready
        /\ futures[t].n = futures[t].partial_iter_end
        /\ UNCHANGED vars

\* the loop of a task ends and its future becomes ready
TaskReturn ==
    \E t \in 1 .. Len(futures) :
        /\ ~futures[t].ready
        /\ futures[t].n = futures[t].partial_iter_end
        /\ futures' = [futures EXCEPT ![t].ready = TRUE]
        /\ UNCHANGED <<kvvars, nthreads, partsize, itr, waited, calls, scan_pc>>

\* the same step when wait() returns although the task has not ended
ForeachWaitNotReady ==
    /\ scan_pc = "wait"
    /\ waited < Len(futures)
    /\ waited' = waited + 1
    /\ UNCHANGED <<kvvars, nthreads, partsize, itr, futures, calls, scan_pc>>

\* for (auto &iter : futures) iter.wait();
ForeachWait ==
    /\ scan_pc = "wait"
    /\ waited < Len(futures)
    /\ futures[waited + 1].ready
    /\ waited' = waited + 1
    /\ UNCHANGED <<kvvars, nthreads, partsize, itr, futures, calls, scan_pc>>

\* a return that does not go through the loop of waits
ForeachReturnEarly ==
    /\ scan_pc = "wait"
    /\ scan_pc' = "done"
    /\ UNCHANGED <<kvvars, nthreads, partsize, itr, futures, waited, calls>>

ForeachReturn ==
    /\ scan_pc = "wait"
    /\ waited = Len(futures)
    /\ scan_pc' = "done"
    /\ UNCHANGED <<kvvars, nthreads, partsize, itr, futures, waited, calls>>

ScanNext ==
    \/ ForeachBegin
    \/ ForeachLaunch
    \/ TaskStep
    \/ TaskReturn
    \/ ForeachWait
    \/ ForeachReturn

(***************************************************************************)
(* The arenas foreach is started on: slot i was filled by the i-th insert  *)
(* (key i, any value) and a set of the slots was removed afterwards, in    *)
(* descending order, so that the free chain runs through them ascending.   *)
(***************************************************************************)
NextVacantAfter(S, i) ==
    IF \E j \in S : j > i THEN 1 + CHOOSE j \in S : j > i /\ \A l \in S : l > i => j <= l
    ELSE 0

ArenaOf(n, S, val) ==
    [p \in 1 .. n |->
        IF (p - 1) \in S
        THEN [type |-> ENTRY_VACANT, occupied |-> foo(NextVacantAfter(S, p - 1), val[p])]
        ELSE slab_entry(foo(p - 1, val[p]))]

ScanInit ==
    /\ \E n \in 0 .. MaxScanLen :
         \E S \in SUBSET (0 .. n - 1) :
           \E val \in [1 .. n -> Values] :
             /\ vec = ArenaOf(n, S, val)
             /\ vacant = NextVacantAfter(S, -1)
             /\ map = EmptyMap
             /\ pre = NoSnapshot
    /\ pc = "idle"
    /\ f = NoFoo
    /\ idx = 0
    /\ next_vacant = 0
    /\ unflushed = <<>>
    /\ tx = NoTx
    /\ ret = "none"
    /\ got = NoFoo
    /\ call = "none"
    /\ crashed = NoCrash
    /\ crashes = 0
    /\ present = EmptyMap
    /\ freed = <<>>
    /\ thr = [t \in Threads |-> IdleThread]
    /\ nthreads \in 1 .. MaxThreads
    /\ partsize = 0
    /\ itr = 0
    /\ futures = <<>>
    /\ waited = 0
    /\ calls = EmptyBag
    /\ scan_pc = "begin"

SpecScan == ScanInit /\ [][ScanNext]_vars

\* The thread that called foreach keeps running, and so do the tasks: each
\* was started with std::launch::async on a thread of its own, and every call
\* of the callback returns (one TaskStep).
ForeachCaller == ForeachBegin \/ ForeachLaunch \/ ForeachWait \/ ForeachReturn
ForeachTasks == TaskStep \/ TaskReturn

SpecScanFair ==
    ScanInit /\ [][ScanNext]_vars /\ WF_vars(ForeachCaller) /\ WF_vars(ForeachTasks)

(***************************************************************************)
(* kv::kv run twice on the same arena: slab.foreach(cb) with the default   *)
(* nthreads, each time into the empty map of a new kv.                     *)
(***************************************************************************)
DefaultNThreads == 1

\* the first kv is gone (its index kept in pre for comparison) and a second
\* one is constructed on the same slab
KvCtorAgain ==
    /\ scan_pc = "done"
    /\ call = "none"
    /\ call' = "kv"
    /\ pre' = Snapshot
    /\ map' = EmptyMap
    /\ partsize' = 0
    /\ itr' = 0
    /\ futures' = <<>>
    /\ waited' = 0
    /\ calls' = EmptyBag
    /\ scan_pc' = "begin"
    /\ UNCHANGED <<vec, vacant, pc, f, idx, next_vacant, unflushed, tx, ret, got,
                   crashed, crashes, present, freed, thr, nthreads>>

CtorInit == ScanInit /\ nthreads = DefaultNThreads

CtorNext == ScanNext \/ KvCtorAgain

SpecCtor == CtorInit /\ [][CtorNext]_vars

KvNext ==
    \/ CallerGoesOn
    \/ KvInsertExists
    \/ SlabInsertAppend
    \/ SlabInsertOutOfRange
    \/ SlabInsertWrite
    \/ SlabInsertPersist
    \/ SlabInsertType
    \/ SlabInsertSetVacant
    \/ SlabInsertCommit
    \/ KvInsertIndex
    \/ KvRemoveLookup
    \/ SlabRemoveOutOfRange
    \/ SlabRemoveType
    \/ SlabRemoveNext
    \/ SlabRemoveSetVacant
    \/ SlabRemoveCommit
    \/ KvRemoveErase
    \/ KvGet

Next == KvNext

Spec == Init /\ [][Next]_vars

NextCrash == KvNext \/ Crash

SpecCrash == Init /\ [][NextCrash]_vars

(***************************************************************************)
(* A transaction that fails: transaction::run rolls its stores back and    *)
(* throws pmem::transaction_error.                                         *)
(***************************************************************************)
\* slab::insert: the transaction fails at its begin, at one of its stores or at
\* its commit; kv::insert catches the transaction_error and returns false
SlabInsertTxFails ==
    /\ pc \in {"ins_type", "ins_set_vacant", "ins_commit"}
    /\ vec' = RolledBack.vec
    /\ vacant' = RolledBack.vacant
    /\ Return("false")
    /\ UNCHANGED <<map, f, got, pre, call, crashed, crashes, present, freed, scanvars, thr>>

\* slab::remove: the transaction fails; kv::remove does not catch the exception
\* and map.erase is not reached
SlabRemoveTxFails ==
    /\ pc \in {"rem_type", "rem_next", "rem_set_vacant", "rem_commit"}
    /\ InRange(vec, idx)
    /\ vec' = RolledBack.vec
    /\ vacant' = RolledBack.vacant
    /\ Return("transaction_error")
    /\ UNCHANGED <<map, f, got, pre, call, crashed, crashes, present, freed, scanvars, thr>>

NextAbort == KvNext \/ SlabInsertTxFails \/ SlabRemoveTxFails

SpecAbort == Init /\ [][NextAbort]_vars

(***************************************************************************)
(* No double allocation                                                    *)
(***************************************************************************)
\* C1: between calls of insert and remove (single thread, no crash) the slots
\* reachable from the free head through the next links and the occupied slots
\* are disjoint and together are exactly the slots 0 .. length - 1.
NoDoubleAllocation ==
    pc \in {"idle", "returned"} =>
        /\ FreeChain(vec, vacant) \cap OccupiedSet(vec) = {}
        /\ FreeChain(vec, vacant) \cup OccupiedSet(vec) = 0 .. Len(vec) - 1

(***************************************************************************)
(* Crash atomicity                                                         *)
(***************************************************************************)
\* the running insert took the reuse path: the key was new, the free head
\* designated a slot of the vector and that slot was vacant
ReusingInsert ==
    /\ ~(f.key \in DOMAIN pre.map)
    /\ has_vacant(pre.vacant)
    /\ InRange(pre.vec, vacant_index(pre.vacant))
    /\ At(pre.vec, vacant_index(pre.vacant)).type = ENTRY_VACANT

\* C2: after an unclean shutdown during an insert that reuses a vacant slot,
\* the slot is either as before the call (vacant, designated by the free head,
\* its next link unchanged) or as after it (occupied with the new value, the
\* free head moved on to the old next link).
InsertReuseCrashAtomic ==
    (ret = "recovered" /\ crashed.call = "insert" /\ ReusingInsert) =>
        LET i == vacant_index(pre.vacant)
            old == At(pre.vec, i)
            new == At(vec, i)
        IN  \/ /\ new.type = ENTRY_VACANT
               /\ vacant = pre.vacant
               /\ vacant_next(new) = vacant_next(old)
            \/ /\ new.type = ENTRY_OCCUPIED
               /\ new.occupied = f
               /\ vacant = vacant_next(old)

\* the interrupted remove was of a slot that was occupied when it was called
RemovingOccupied ==
    /\ crashed.call = "remove"
    /\ InRange(pre.vec, crashed.idx)
    /\ At(pre.vec, crashed.idx).type = ENTRY_OCCUPIED

RemoveOldState ==
    /\ At(vec, crashed.idx) = At(pre.vec, crashed.idx)
    /\ vacant = pre.vacant

RemoveNewState ==
    /\ At(vec, crashed.idx).type = ENTRY_VACANT
    /\ vacant_next(At(vec, crashed.idx)) = pre.vacant
    /\ vacant = Add1(crashed.idx)

\* C3: after an unclean shutdown during remove of an occupied slot idx, either
\* the slot is occupied with its original value and the free head is unchanged,
\* or the slot is vacant, its next link holds the previous free head and the
\* free head designates idx.
RemoveCrashAtomic ==
    (ret = "recovered" /\ RemovingOccupied) => (RemoveOldState \/ RemoveNewState)

\* a remove interrupted inside its transaction, with the type and the next link
\* already written, was rolled back to the old state
RemoveCrashAtomicWitness ==
    /\ ret = "recovered"
    /\ RemovingOccupied
    /\ crashed.pc = "rem_set_vacant"
    /\ pre.vacant # 0
    /\ RemoveOldState
    /\ ~RemoveNewState

(***************************************************************************)
(* Durability and lookup                                                   *)
(***************************************************************************)
\* C4: after an unclean shutdown, reopen and rebuild of the index, get(k)
\* returns v for every key k whose insert(k, v) had returned true and that was
\* not removed since.
DurableInserts ==
    (pc = "returned" /\ ret = "recovered") =>
        \A k \in DOMAIN present :
            KvGetResult(map, vec, k) = [ret |-> "ref", got |-> foo(k, present[k])]

\* C5: an insert that stores its value stores it in the most recently freed
\* slot that was not reused yet, and appends at index = previous length when
\* there is no such slot.
LIFOReuse ==
    (pc = "returned" /\ call = "insert" /\ ret = "true") =>
        LET slot == IF pre.freed # <<>> THEN pre.freed[Len(pre.freed)] ELSE Len(pre.vec)
        IN  /\ map[f.key] = slot
            /\ InRange(vec, slot)
            /\ At(vec, slot) = slab_entry(f)
            /\ Len(vec) = IF pre.freed # <<>> THEN Len(pre.vec) ELSE Len(pre.vec) + 1

\* C6: get(key) of a present key returns the value of the key's last
\* successful insert, and two present keys never resolve to the same slot.
GetReturnsLastInsert ==
    /\ (pc = "returned" /\ call = "get" /\ ret # "recovered" /\ f.key \in DOMAIN present) =>
           (ret = "ref" /\ got = foo(f.key, present[f.key]))
    /\ pc = "returned" =>
           \A k1 \in DOMAIN present, k2 \in DOMAIN present :
               k1 # k2 => (k1 \in DOMAIN map /\ k2 \in DOMAIN map /\ map[k1] # map[k2])

(***************************************************************************)
(* Traversal                                                               *)
(***************************************************************************)
OccupiedEntries(v) == {<<i, At(v, i).occupied>> : i \in OccupiedSet(v)}

\* C7: for every arena and every nthreads >= 1, foreach calls the callback
\* exactly once for each occupied slot, with the index and the value of the
\* slot, and never for a vacant slot: when it returns, the bag of the calls is
\* the set of the occupied entries, which is what nthreads = 1 yields.
ScanVisitsOccupiedOnce ==
    /\ \A e \in BagToSet(calls) : e \in OccupiedEntries(vec) /\ CopiesIn(e, calls) = 1
    /\ scan_pc = "done" => calls = SetToBag(OccupiedEntries(vec))

\* a traversal by several tasks of an arena holding occupied and vacant slots
ScanVisitsOccupiedOnceWitness ==
    /\ scan_pc = "done"
    /\ nthreads > 1
    /\ Len(futures) > 1
    /\ OccupiedSet(vec) # {}
    /\ OccupiedSet(vec) # 0 .. Len(vec) - 1
    /\ calls = SetToBag(OccupiedEntries(vec))

(***************************************************************************)
(* Calls on absent and on present keys                                     *)
(***************************************************************************)
Untouched ==
    /\ vec = pre.vec
    /\ vacant = pre.vacant
    /\ map = pre.map

\* C8: remove(key) of a key that is not in the index fails and changes neither
\* the arena (slots, next links, free head, length) nor the index.
RemoveAbsentIsNoOp ==
    (pc = "returned" /\ call = "remove" /\ ret # "recovered" /\ ~(f.key \in DOMAIN pre.map)) =>
        (ret # "void" /\ Untouched)

\* C9: get(key) of a key that is not present fails, and get never changes the
\* index or the arena.
GetIsReadOnly ==
    (pc = "returned" /\ call = "get" /\ ret # "recovered") =>
        /\ Untouched
        /\ ~(f.key \in DOMAIN pre.map) => ret # "ref"

\* C10: insert(key, value) of a key already in the index returns false and
\* changes neither the arena nor the index, so the key keeps its earlier value.
InsertExistingIsNoOp ==
    (call = "insert" /\ ret # "recovered" /\ f.key \in DOMAIN pre.map) =>
        /\ pc = "returned"
        /\ ret = "false"
        /\ Untouched
        /\ KvGetResult(map, vec, f.key) = KvGetResult(pre.map, pre.vec, f.key)

\* a rejected insert of a present key, with a different value than the stored one
InsertExistingIsNoOpWitness ==
    /\ pc = "returned"
    /\ call = "insert"
    /\ ret = "false"
    /\ f.key \in DOMAIN pre.map
    /\ InRange(vec, map[f.key])
    /\ At(vec, map[f.key]).type = ENTRY_OCCUPIED
    /\ At(vec, map[f.key]).occupied.key = f.key
    /\ At(vec, map[f.key]).occupied.value # f.value

(***************************************************************************)
(* The allocator on its own: slab::insert and slab::remove called directly *)
(* by one thread, every remove on a slot that is occupied.                 *)
(***************************************************************************)
\* slab::insert as a whole call: the vector, the free head and the outcome
SlabInsert(v, head, value) ==
    IF has_vacant(head)
    THEN IF ~InRange(v, vacant_index(head))
         THEN [vec |-> v, vacant |-> head, ret |-> "out_of_range", idx |-> 0]
         ELSE LET i == vacant_index(head)
                  next == Sub1(vacant_next(At(v, i)))
              IN  [vec |-> [v EXCEPT ![i + 1] = [type |-> ENTRY_OCCUPIED, occupied |-> value]],
                   vacant |-> set_vacant(next), ret |-> "index", idx |-> i]
    ELSE [vec |-> Append(v, slab_entry(value)), vacant |-> head,
          ret |-> "index", idx |-> Len(v)]

\* slab::remove without the store of the next link
SlabRemoveNoLink(v, head, i) ==
    IF ~InRange(v, i)
    THEN [vec |-> v, vacant |-> head, ret |-> "out_of_range", idx |-> i]
    ELSE [vec |-> [v EXCEPT ![i + 1].type = ENTRY_VACANT],
          vacant |-> set_vacant(i), ret |-> "void", idx |-> i]

\* slab::remove as a whole call
SlabRemove(v, head, i) ==
    IF ~InRange(v, i)
    THEN [vec |-> v, vacant |-> head, ret |-> "out_of_range", idx |-> i]
    ELSE [vec |-> [v EXCEPT ![i + 1] = with_vacant_next([@ EXCEPT !.type = ENTRY_VACANT], head)],
          vacant |-> set_vacant(i), ret |-> "void", idx |-> i]

SlabCall(name, arg, r) ==
    /\ Enter(name, arg)
    /\ vec' = r.vec
    /\ vacant' = r.vacant
    /\ idx' = r.idx
    /\ ret' = r.ret
    /\ pc' = "returned"
    /\ UNCHANGED <<map, next_vacant, unflushed, tx, got, crashes, present, freed, scanvars, thr>>

SlabInsertCall ==
    \E k \in Keys, v \in Values :
        /\ has_vacant(vacant) \/ Len(vec) < MaxSlabLen
        /\ SlabCall("slab_insert", foo(k, v), SlabInsert(vec, vacant, foo(k, v)))

SlabRemoveCall ==
    \E i \in OccupiedSet(vec) :
        SlabCall("slab_remove", NoFoo, SlabRemove(vec, vacant, i))

SlabNext == CallerGoesOn \/ SlabInsertCall \/ SlabRemoveCall

SpecSlab == Init /\ [][SlabNext]_vars

(***************************************************************************)
(* Two threads in kv::insert at once.  kv::insert and slab::insert take no *)
(* lock (kv::lock is taken by the callback of kv::kv only) and a           *)
(* transaction does not isolate: the steps of the two calls interleave.    *)
(* Every step is taken as atomic and sequentially consistent, the mildest  *)
(* outcome of the unsynchronised accesses.                                 *)
(***************************************************************************)
seqvars == <<pc, f, idx, next_vacant, unflushed, tx, ret, got, pre, call, crashed,
             crashes, present, freed>>

\* the callers insert distinct keys
DistinctKey(t, k) == \A u \in Threads \ {t} : thr[u].pc = "idle" \/ thr[u].f.key # k

\* if (map.find(f.key) != map.end()) return false;
ThreadInsertExists(t) ==
    \E k \in Keys, v \in Values :
        /\ thr[t].pc = "idle"
        /\ DistinctKey(t, k)
        /\ MapFind(map, k)
        /\ thr' = [thr EXCEPT ![t] = [pc |-> "returned", f |-> foo(k, v), idx |-> 0,
                                      next_vacant |-> 0, ret |-> "false"]]
        /\ UNCHANGED <<vec, vacant, map, seqvars, scanvars>>

\* slab::insert, no vacant entry: vec.emplace_back(value); return vec.size() - 1;
ThreadInsertAppend(t) ==
    \E k \in Keys, v \in Values :
        /\ thr[t].pc = "idle"
        /\ DistinctKey(t, k)
        /\ ~MapFind(map, k)
        /\ ~has_vacant(vacant)
        /\ Len(vec) < MaxSlabLen
        /\ vec' = Append(vec, slab_entry(foo(k, v)))
        /\ thr' = [thr EXCEPT ![t] = [pc |-> "ins_index", f |-> foo(k, v), idx |-> Len(vec),
                                      next_vacant |-> 0, ret |-> "none"]]
        /\ UNCHANGED <<vacant, map, seqvars, scanvars>>

\* slab::insert, a vacant entry exists: vec.at(idx) throws std::out_of_range
ThreadInsertOutOfRange(t) ==
    \E k \in Keys, v \in Values :
        /\ thr[t].pc = "idle"
        /\ DistinctKey(t, k)
        /\ ~MapFind(map, k)
        /\ has_vacant(vacant)
        /\ ~InRange(vec, vacant_index(vacant))
        /\ thr' = [thr EXCEPT ![t] = [pc |-> "returned", f |-> foo(k, v), idx |-> 0,
                                      next_vacant |-> 0, ret |-> "out_of_range"]]
        /\ UNCHANGED <<vec, vacant, map, seqvars, scanvars>>

\* slab::insert, a vacant entry exists: idx, next_vacant, entry.occupied = value,
\* pop.persist(entry.occupied)
ThreadInsertWrite(t) ==
    \E k \in Keys, v \in Values :
        /\ thr[t].pc = "idle"
        /\ DistinctKey(t, k)
        /\ ~MapFind(map, k)
        /\ has_vacant(vacant)
        /\ InRange(vec, vacant_index(vacant))
        /\ vec' = [vec EXCEPT ![vacant_index(vacant) + 1].occupied = foo(k, v)]
        /\ thr' = [thr EXCEPT ![t] = [pc |-> "ins_type", f |-> foo(k, v),
                                      idx |-> vacant_index(vacant),
                                      next_vacant |-> Sub1(vacant_next(At(vec, vacant_index(vacant)))),
                                      ret |-> "none"]]
        /\ UNCHANGED <<vacant, map, seqvars, scanvars>>

\* transaction::run(pop, [&] { entry.type = ENTRY_OCCUPIED; ...
ThreadInsertType(t) ==
    /\ thr[t].pc = "ins_type"
    /\ vec' = [vec EXCEPT ![thr[t].idx + 1].type = ENTRY_OCCUPIED]
    /\ thr' = [thr EXCEPT ![t].pc = "ins_set_vacant"]
    /\ UNCHANGED <<vacant, map, seqvars, scanvars>>

\* ... set_vacant(next_vacant); }); return idx;
ThreadInsertSetVacant(t) ==
    /\ thr[t].pc = "ins_set_vacant"
    /\ vacant' = set_vacant(thr[t].next_vacant)
    /\ thr' = [thr EXCEPT ![t].pc = "ins_index"]
    /\ UNCHANGED <<vec, map, seqvars, scanvars>>

\* map[f.key] = idx; return true;
ThreadInsertIndex(t) ==
    /\ thr[t].pc = "ins_index"
    /\ map' = MapAssign(map, thr[t].f.key, thr[t].idx)
    /\ thr' = [thr EXCEPT ![t].pc = "returned", ![t].ret = "true"]
    /\ UNCHANGED <<vec, vacant, seqvars, scanvars>>

\* the caller goes on to its next insert
ThreadGoesOn(t) ==
    /\ thr[t].pc = "returned"
    /\ thr' = [thr EXCEPT ![t] = IdleThread]
    /\ UNCHANGED <<vec, vacant, map, seqvars, scanvars>>

ConcNext ==
    \E t \in Threads :
        \/ ThreadInsertExists(t)
        \/ ThreadInsertAppend(t)
        \/ ThreadInsertOutOfRange(t)
        \/ ThreadInsertWrite(t)
        \/ ThreadInsertType(t)
        \/ ThreadInsertSetVacant(t)
        \/ ThreadInsertIndex(t)
        \/ ThreadGoesOn(t)

\* the store the two threads start on: an arena as left by earlier calls of
\* one thread, with its index
ConcInit ==
    /\ \E n \in 0 .. MaxLen :
         \E S \in SUBSET (0 .. n - 1) :
           \E val \in [1 .. n -> Values] :
             /\ vec = ArenaOf(n, S, val)
             /\ vacant = NextVacantAfter(S, -1)
             /\ map = Rebuild(vec)
    /\ pc = "idle" /\ f = NoFoo /\ idx = 0 /\ next_vacant = 0 /\ unflushed = <<>>
    /\ tx = NoTx /\ ret = "none" /\ got = NoFoo /\ pre = NoSnapshot /\ call = "none"
    /\ crashed = NoCrash /\ crashes = 0 /\ present = EmptyMap /\ freed = <<>>
    /\ thr = [t \in Threads |-> IdleThread]
    /\ ScanIdle

SpecConc == ConcInit /\ [][ConcNext]_vars

\* the slots the walk from the free head visits, in order, following at most n links
RECURSIVE ChainSeq(_, _, _)
ChainSeq(v, head, n) ==
    IF n = 0 \/ ~has_vacant(head) \/ ~InRange(v, vacant_index(head)) THEN <<>>
    ELSE <<vacant_index(head)>> \o ChainSeq(v, vacant_next(At(v, vacant_index(head))), n - 1)

\* the stored head at which that walk stops
RECURSIVE ChainEnd(_, _, _)
ChainEnd(v, head, n) ==
    IF n = 0 \/ ~has_vacant(head) \/ ~InRange(v, vacant_index(head)) THEN head
    ELSE ChainEnd(v, vacant_next(At(v, vacant_index(head))), n - 1)

(***************************************************************************)
(* Free chain of the allocator                                             *)
(***************************************************************************)
\* C13: after any sequence of slab.insert and slab.remove calls whose removes
\* are all of occupied slots, the walk from the free head through the next
\* links ends at the empty marker, visits only vacant slots and visits no slot
\* twice.
FreeChainWellFormed ==
    LET s == ChainSeq(vec, vacant, Len(vec) + 1)
    IN  /\ ChainEnd(vec, vacant, Len(vec) + 1) = 0
        /\ \A n \in 1 .. Len(s) : At(vec, s[n]).type = ENTRY_VACANT
        /\ \A n, m \in 1 .. Len(s) : n # m => s[n] # s[m]

\* a remove has just pushed a third slot on the chain
FreeChainWellFormedWitness ==
    /\ pc = "returned" /\ call = "slab_remove"
    /\ Len(ChainSeq(vec, vacant, Len(vec) + 1)) = 3

\* C18: the free head is 0 on a new arena and whenever no slot is vacant, so
\* that has_vacant is false and the next insert appends; an insert that reuses
\* a slot whose stored next link is 0 leaves the head 0 (next - 1 wraps and
\* set_vacant's + 1 wraps back); a head that is not 0 is the index it
\* designates plus 1.
FreeHeadRoundTrip ==
    /\ Len(vec) = 0 => vacant = 0
    /\ OccupiedSet(vec) = 0 .. Len(vec) - 1 => vacant = 0 /\ ~has_vacant(vacant)
    /\ has_vacant(vacant) =>
           /\ InRange(vec, vacant_index(vacant))
           /\ set_vacant(vacant_index(vacant)) = vacant
    /\ (/\ pc = "returned" /\ call = "slab_insert"
        /\ has_vacant(pre.vacant)
        /\ vacant_next(At(pre.vec, vacant_index(pre.vacant))) = 0)
           => vacant = 0 /\ idx = vacant_index(pre.vacant)

\* slots were freed and the insert that has just returned reused the last of
\* them, whose stored next link was 0
FreeHeadRoundTripWitness ==
    /\ pc = "returned" /\ call = "slab_insert"
    /\ has_vacant(pre.vacant)
    /\ vacant_next(At(pre.vec, vacant_index(pre.vacant))) = 0
    /\ Len(vec) = MaxSlabLen
    /\ vacant = 0

(***************************************************************************)
(* Ordering of the durable change and the index change                     *)
(***************************************************************************)
\* C11: inside insert and remove the index is as it was when the call was made
\* until the last step of the call, which follows the commit of the durable
\* change; when the durable step fails the index is as before the call.
CommitBeforeIndex ==
    (call \in {"insert", "remove"}) =>
        /\ pc \in {"ins_persist", "ins_type", "ins_set_vacant", "ins_commit", "ins_index",
                   "rem_type", "rem_next", "rem_set_vacant", "rem_commit", "rem_erase"}
               => map = pre.map
        /\ (pc = "returned" /\ ret \in {"false", "transaction_error", "out_of_range"})
               => map = pre.map

\* C14: when the transaction of an insert that reuses a vacant slot fails, the
\* call reports the failure and the slot is still vacant with its next link,
\* the free head and the index as before the call.
AbortedInsertUnchanged ==
    (pc = "returned" /\ call = "insert" /\ ret = "false" /\ ReusingInsert) =>
        LET i == vacant_index(pre.vacant)
        IN  /\ At(vec, i).type = ENTRY_VACANT
            /\ vacant_next(At(vec, i)) = vacant_next(At(pre.vec, i))
            /\ vacant = pre.vacant
            /\ map = pre.map

(***************************************************************************)
(* Rebuild of the index                                                    *)
(***************************************************************************)
\* C12: when kv::kv has run twice in a row on the same unchanged arena, the
\* index the second run built maps the same keys to the same slots as the
\* index the first run built.
IdempotentRebuild ==
    (call = "kv" /\ scan_pc = "done") => map = pre.map /\ vec = pre.vec

\* the second run has returned on an arena with a vacant slot and with at
\* least two occupied slots, all of them in the index
IdempotentRebuildWitness ==
    /\ call = "kv" /\ scan_pc = "done"
    /\ Cardinality(DOMAIN map) >= 2
    /\ Cardinality(OccupiedSet(vec)) = Cardinality(DOMAIN map)
    /\ Cardinality(OccupiedSet(vec)) < Len(vec)

(***************************************************************************)
(* Fork and join of foreach                                                *)
(***************************************************************************)
\* C20: when foreach has returned every task it launched has run through its
\* part and its future is ready, so that no callback can run any more, and the
\* index the callbacks of kv::kv built holds the key of every occupied slot
\* with the index of that slot.
ForkJoinCompletion ==
    scan_pc = "done" =>
        /\ \A t \in 1 .. Len(futures) :
               futures[t].ready /\ futures[t].n = futures[t].partial_iter_end
        /\ \A i \in OccupiedSet(vec) :
               /\ At(vec, i).occupied.key \in DOMAIN map
               /\ map[At(vec, i).occupied.key] = i

\* foreach has returned after it launched three tasks on an arena with at
\* least two occupied slots
ForkJoinCompletionWitness ==
    /\ scan_pc = "done"
    /\ Len(futures) = 3
    /\ Cardinality(OccupiedSet(vec)) >= 2

(***************************************************************************)
(* Number of tasks of foreach                                              *)
(***************************************************************************)
\* C17: foreach never has more than nthreads tasks launched, and when its
\* launch loop has ended it has launched exactly nthreads tasks.
ScanLaunchesNThreadsTasks ==
    /\ Len(futures) <= nthreads
    /\ scan_pc \in {"wait", "done"} => Len(futures) = nthreads

(***************************************************************************)
(* Close and reopen                                                        *)
(***************************************************************************)
\* C15: between calls the index that kv::kv would build from the arena (a
\* clean close and a reopen) is the index the store holds, and it maps exactly
\* the keys of the occupied slots, each to the index of its slot.
ReopenRoundTrip ==
    pc = "idle" =>
        /\ Rebuild(vec) = map
        /\ DOMAIN Rebuild(vec) = {At(vec, i).occupied.key : i \in OccupiedSet(vec)}
        /\ \A i \in OccupiedSet(vec) : Rebuild(vec)[At(vec, i).occupied.key] = i

(***************************************************************************)
(* Frame of remove                                                         *)
(***************************************************************************)
\* C19: a remove of a key that is in the index leaves the length of the
\* vector and every other slot as they were; of the removed slot only the
\* type and the next link may differ (the value is as it was); the index is
\* the former index without the key.  When the call throws instead, nothing
\* has changed.
RemoveFrame ==
    (pc = "returned" /\ call = "remove" /\ f.key \in DOMAIN pre.map) =>
        LET i == pre.map[f.key]
        IN  /\ Len(vec) = Len(pre.vec)
            /\ \A j \in 0 .. Len(vec) - 1 : j # i => At(vec, j) = At(pre.vec, j)
            /\ InRange(vec, i) => At(vec, i).occupied.value = At(pre.vec, i).occupied.value
            /\ ret = "void" =>
                   /\ map = MapErase(pre.map, f.key)
                   /\ At(vec, i).type = ENTRY_VACANT
                   /\ vacant_next(At(vec, i)) = pre.vacant
                   /\ vacant = set_vacant(i)
            /\ ret # "void" => vec = pre.vec /\ vacant = pre.vacant /\ map = pre.map

\* a remove has returned that freed the occupied slot of its key while the
\* other slot of the vector is occupied by another key of the index
RemoveFrameWitness ==
    /\ pc = "returned" /\ call = "remove" /\ ret = "void"
    /\ f.key \in DOMAIN pre.map
    /\ Len(pre.vec) = 2
    /\ OccupiedSet(pre.vec) = {0, 1}
    /\ Cardinality(DOMAIN map) = 1

(***************************************************************************)
(* Concurrent inserts                                                      *)
(***************************************************************************)
\* C16: when two threads have both returned true from inserts of distinct
\* keys, the two calls were given distinct slots, each key is in the index
\* with a slot that is occupied and holds the inserted payload, and once both
\* threads are out of kv::insert the slots on the free chain and the occupied
\* slots are disjoint and together are all the slots.
ConcurrentInsertsDistinct ==
    /\ (\A t \in Threads : thr[t].pc = "returned" /\ thr[t].ret = "true") =>
           /\ \A t, u \in Threads : t # u => thr[t].idx # thr[u].idx
           /\ \A t \in Threads :
                  /\ thr[t].f.key \in DOMAIN map
                  /\ InRange(vec, map[thr[t].f.key])
                  /\ At(vec, map[thr[t].f.key]) = slab_entry(thr[t].f)
    /\ (\A t \in Threads : thr[t].pc \in {"idle", "returned"}) =>
           /\ FreeChain(vec, vacant) \cap OccupiedSet(vec) = {}
           /\ FreeChain(vec, vacant) \cup OccupiedSet(vec) = 0 .. Len(vec) - 1

(***************************************************************************)
(* Termination of foreach                                                  *)
(***************************************************************************)
\* C21: for every arena length, the empty arena included, and every nthreads
\* of at least 1, foreach eventually returns when the calling thread and the
\* tasks keep running and every callback returns; on an empty arena the
\* callback is never invoked.
ScanTerminates ==
    /\ <>(scan_pc = "done")
    /\ [](Len(vec) = 0 => calls = EmptyBag)

\* foreach has returned on an empty arena with nthreads above 1: its do-while
\* ran once and launched one task over the empty range
ScanTerminatesWitness ==
    /\ scan_pc = "done"
    /\ Len(vec) = 0
    /\ nthreads > 1
    /\ Len(futures) = 1
    /\ calls = EmptyBag

====
